---- MODULE Spec2Model ----
(***************************************************************************)
(* Model of examples/example.py: the User dataclass, the in-memory         *)
(* UserRepository (find_by_id, find_by_email, save, delete) and the        *)
(* process_batch helper.                                                   *)
(*                                                                         *)
(* Line 74 of the source carries a pasted file path inside the parameter  *)
(* list of delete; the parameter is read as user_id, the name the body    *)
(* of delete uses.                                                         *)
(***************************************************************************)
EXTENDS Integers, Sequences, FiniteSets

VARIABLES
    users,              \* UserRepository.users, a list of User
    now,                \* the wall clock datetime.now() reads
    default_created_at, \* the default value of User.created_at
    last,               \* the most recent call: name, arguments, result
    before,             \* UserRepository.users as it was before that call
    prior,              \* what the call before the most recent one was
    items,              \* process_batch: argument items
    batch_size,         \* process_batch: argument batch_size
    outcome             \* process_batch: not yet called, or what the call did

vars == <<users, now, default_created_at, last, before, prior, items, batch_size, outcome>>

-----------------------------------------------------------------------------
(* Bounds *)

MaxUsers == 3      \* longest repository the model builds
MaxLen == 4        \* longest items list given to process_batch
MaxBatch == 3      \* batch_size ranges over -MaxBatch..MaxBatch
MaxAge == 20       \* is_adult is tried on the ages -MaxAge..MaxAge

-----------------------------------------------------------------------------
(* The User dataclass *)

ADULT_AGE == 18

Ids == {1, 2}
Names == {"Alice Johnson", "Bob Smith"}
Emails == {"alice@example.com", "bob@example.com"}
Ages == {17, 28}
\* Clock readings: 0 is the time of import, 1 any later time.
Times == {0, 1}

Fields == {"id", "name", "email", "age", "created_at"}

User == [id : Ids, name : Names, email : Emails, age : Ages, created_at : Times]

\* The generated __init__: created_at is the class-level default unless the
\* caller passes one.  ts is <<>> (omitted) or <<t>>.
NewUser(id, name, email, age, ts) ==
    [id |-> id, name |-> name, email |-> email, age |-> age,
     created_at |-> IF ts = <<>> THEN default_created_at ELSE ts[1]]

\* alice and bob of the __main__ block (created_at left out there).
Alice == [id |-> 1, name |-> "Alice Johnson", email |-> "alice@example.com",
          age |-> 28, created_at |-> 0]
Bob == [id |-> 2, name |-> "Bob Smith", email |-> "bob@example.com",
        age |-> 17, created_at |-> 0]

\* The records the calls are driven with: alice, bob, and every record that
\* differs from alice in one field.
SampleUsers ==
    {u \in User : u = Bob \/ Cardinality({f \in Fields : u[f] # Alice[f]}) <= 1}

\* Mutant of User_eq: reference identity; every call constructs a fresh object.
User_eq_identity(a, b) == FALSE

\* The generated __eq__: the tuples of the five fields compare equal.
User_eq(a, b) ==
    /\ a.id = b.id
    /\ a.name = b.name
    /\ a.email = b.email
    /\ a.age = b.age
    /\ a.created_at = b.created_at

\* Mutant of is_adult: strict comparison.
is_adult_strict(u) == u.age > ADULT_AGE

is_adult(u) == u.age >= ADULT_AGE

-----------------------------------------------------------------------------
(* Python list operations used by the repository *)

Min(a, b) == IF a < b THEN a ELSE b
Max(a, b) == IF a > b THEN a ELSE b

\* x in xs
list_contains(xs, x) == \E i \in 1..Len(xs) : User_eq(xs[i], x)

RemoveAt(xs, k) == [i \in 1..(Len(xs) - 1) |-> IF i < k THEN xs[i] ELSE xs[i + 1]]

\* The first position at or after i whose element equals x; 0 when there is none.
RECURSIVE list_index(_, _, _)
list_index(xs, x, i) ==
    IF i > Len(xs) THEN 0
    ELSE IF User_eq(xs[i], x) THEN i
    ELSE list_index(xs, x, i + 1)

\* xs.remove(x): drops the first element equal to x.  (With no such element
\* Python raises ValueError; delete only passes an element find_by_id returned,
\* so the list is handed back as it is in that case.)
list_remove(xs, x) ==
    LET k == list_index(xs, x, 1)
    IN  IF k = 0 THEN xs ELSE RemoveAt(xs, k)

-----------------------------------------------------------------------------
(* UserRepository *)

\* Optional[User] is <<>> (None) or <<u>>.

\* The for loop of find_by_id from position i on.
RECURSIVE scan_by_id(_, _, _)
scan_by_id(xs, user_id, i) ==
    IF i > Len(xs) THEN <<>>
    ELSE IF xs[i].id = user_id THEN <<xs[i]>>
    ELSE scan_by_id(xs, user_id, i + 1)

\* The generator of find_by_email from position i on; next() takes its first
\* value, or the default None.
RECURSIVE scan_by_email(_, _, _)
scan_by_email(xs, email, i) ==
    IF i > Len(xs) THEN <<>>
    ELSE IF xs[i].email = email THEN <<xs[i]>>
    ELSE scan_by_email(xs, email, i + 1)

\* Scans from the end of the list backwards.
RECURSIVE scan_back(_, _, _, _)
scan_back(xs, field, key, i) ==
    IF i < 1 THEN <<>>
    ELSE IF xs[i][field] = key THEN <<xs[i]>>
    ELSE scan_back(xs, field, key, i - 1)

\* Mutant of find_by_id: the last match instead of the first.
find_by_id_last(xs, user_id) == scan_back(xs, "id", user_id, Len(xs))

find_by_id(xs, user_id) == scan_by_id(xs, user_id, 1)

\* Mutant of find_by_email: the last match instead of the first.
find_by_email_last(xs, email) == scan_back(xs, "email", email, Len(xs))

find_by_email(xs, email) == scan_by_email(xs, email, 1)

\* Mutant of save: the membership test is dropped.
save_always_appends(xs, user) == Append(xs, user)

\* Mutant of save: inserts at the front.
save_prepends(xs, user) == IF ~list_contains(xs, user) THEN <<user>> \o xs ELSE xs

\* The list save leaves; it returns user in both branches.
save(xs, user) == IF ~list_contains(xs, user) THEN Append(xs, user) ELSE xs

\* Mutant of delete: reports success without removing.
delete_keeps_record(xs, user_id) ==
    LET user == find_by_id(xs, user_id)
    IN  IF user # <<>> THEN [users |-> xs, ret |-> TRUE]
        ELSE [users |-> xs, ret |-> FALSE]

\* A User instance is always truthy, so "if user" tests for not None.
delete(xs, user_id) ==
    LET user == find_by_id(xs, user_id)
    IN  IF user # <<>> THEN [users |-> list_remove(xs, user[1]), ret |-> TRUE]
        ELSE [users |-> xs, ret |-> FALSE]

-----------------------------------------------------------------------------
(* The record of the most recent call *)

NoCall ==
    [call |-> "none", user |-> <<>>, id |-> 0, email |-> "", ret_user |-> <<>>,
     ret_bool |-> FALSE, defaulted |-> FALSE, at |-> 0]

Call(name, user, id, email, ret_user, ret_bool, defaulted, at) ==
    [call |-> name, user |-> user, id |-> id, email |-> email,
     ret_user |-> ret_user, ret_bool |-> ret_bool, defaulted |-> defaulted,
     at |-> at]

\* The call before the one being made: whether it was the same call with the
\* same arguments, whether it was a delete that returned True, and whether it
\* was a save that appended.
NoPrior == [same |-> FALSE, deleted |-> FALSE, appended |-> FALSE]

Prior(name, user, id, email) ==
    [same |-> (last.call = name /\ last.user = user /\ last.id = id /\ last.email = email),
     deleted |-> (last.call = "delete" /\ last.ret_bool),
     appended |-> (last.call = "save" /\ Len(users) = Len(before) + 1)]

-----------------------------------------------------------------------------
(* Repository calls.  Only the construction of a User in Save is placed in   *)
(* time; the other calls do not depend on the clock.                        *)

BatchIdle == UNCHANGED <<items, batch_size, outcome>>

\* user = User(...) constructed at clock time t, then repo.save(user).
\* The constructor is called with or without created_at.
Save ==
    \E t \in {c \in Times : c >= now}, u \in SampleUsers, defaulted \in BOOLEAN :
        LET ts == IF defaulted THEN <<>> ELSE <<u.created_at>>
            user == NewUser(u.id, u.name, u.email, u.age, ts)
        IN  /\ user \in SampleUsers
            /\ Len(save(users, user)) <= MaxUsers
            /\ now' = t
            /\ users' = save(users, user)
            /\ before' = users
            /\ last' = Call("save", <<user>>, 0, "", <<user>>, FALSE, defaulted, t)
            /\ prior' = Prior("save", <<user>>, 0, "")
            /\ UNCHANGED default_created_at
            /\ BatchIdle

Delete ==
    \E user_id \in Ids :
        LET r == delete(users, user_id)
        IN  /\ users' = r.users
            /\ before' = users
            /\ last' = Call("delete", <<>>, user_id, "", <<>>, r.ret, FALSE, now)
            /\ prior' = Prior("delete", <<>>, user_id, "")
            /\ UNCHANGED <<now, default_created_at>>
            /\ BatchIdle

FindById ==
    \E user_id \in Ids :
        /\ before' = users
        /\ last' = Call("find_by_id", <<>>, user_id, "", find_by_id(users, user_id),
                        FALSE, FALSE, now)
        /\ prior' = Prior("find_by_id", <<>>, user_id, "")
        /\ UNCHANGED <<users, now, default_created_at>>
        /\ BatchIdle

FindByEmail ==
    \E email \in Emails :
        /\ before' = users
        /\ last' = Call("find_by_email", <<>>, 0, email, find_by_email(users, email),
                        FALSE, FALSE, now)
        /\ prior' = Prior("find_by_email", <<>>, 0, email)
        /\ UNCHANGED <<users, now, default_created_at>>
        /\ BatchIdle

\* u.is_adult() on a record of any age.
IsAdult ==
    \E a \in -MaxAge..MaxAge :
        LET u == [Alice EXCEPT !.age = a]
        IN  /\ before' = users
            /\ last' = Call("is_adult", <<u>>, 0, "", <<>>, is_adult(u), FALSE, now)
            /\ prior' = Prior("is_adult", <<u>>, 0, "")
            /\ UNCHANGED <<users, now, default_created_at>>
            /\ BatchIdle

-----------------------------------------------------------------------------
(* process_batch *)

\* range(start, stop, step) for step # 0, as the list of its values.
RECURSIVE py_range(_, _, _)
py_range(start, stop, step) ==
    IF (step > 0 /\ start < stop) \/ (step < 0 /\ start > stop)
    THEN <<start>> \o py_range(start + step, stop, step)
    ELSE <<>>

\* A slice bound: negative counts from the end, then clamped to 0..Len.
SliceIndex(xs, i) == IF i < 0 THEN Max(i + Len(xs), 0) ELSE Min(i, Len(xs))

\* Mutant of py_slice: the upper bound is taken as inclusive.
py_slice_inclusive(xs, lo, hi) == SubSeq(xs, SliceIndex(xs, lo) + 1, SliceIndex(xs, hi + 1))

\* xs[lo:hi]
py_slice(xs, lo, hi) == SubSeq(xs, SliceIndex(xs, lo) + 1, SliceIndex(xs, hi))

\* range() raises ValueError for a zero step, before the loop body runs.
process_batch(its, size) ==
    IF size = 0
    THEN [state |-> "raised", error |-> "ValueError", batches |-> <<>>]
    ELSE LET r == py_range(0, Len(its), size)
         IN  [state |-> "returned", error |-> "",
              batches |-> [k \in 1..Len(r) |-> py_slice(its, r[k], r[k] + size)]]

NotCalled == [state |-> "idle", error |-> "", batches |-> <<>>]

ProcessBatch ==
    /\ outcome.state = "idle"
    /\ outcome' = process_batch(items, batch_size)
    /\ UNCHANGED <<users, now, default_created_at, last, before, prior, items, batch_size>>

-----------------------------------------------------------------------------
(* Specifications *)

\* The class body runs once, at import: created_at's default is the clock then.
\* UserRepository.__init__ leaves users empty.
Init ==
    /\ now = 0
    /\ default_created_at = now
    /\ users = <<>>
    /\ before = <<>>
    /\ last = NoCall
    /\ prior = NoPrior
    /\ items = <<>>
    /\ batch_size = 1
    /\ outcome = NotCalled

Next == Save \/ Delete \/ FindById \/ FindByEmail

Spec == Init /\ [][Next]_vars

-----------------------------------------------------------------------------
(* Properties of the repository, checked under Spec *)

\* Positions of xs whose record has the given id / email.
WithId(xs, id) == {i \in 1..Len(xs) : xs[i].id = id}
WithEmail(xs, email) == {i \in 1..Len(xs) : xs[i].email = email}
Lowest(S) == CHOOSE i \in S : \A j \in S : i <= j

\* Structural equality written out field by field.
SameFields(a, b) == \A f \in Fields : a[f] = b[f]
Present(xs, u) == \E i \in 1..Len(xs) : SameFields(xs[i], u)

\* xs without its k-th element, order kept.
Without(xs, k) == SubSeq(xs, 1, k - 1) \o SubSeq(xs, k + 1, Len(xs))

\* C1: save(record) appends the record at the end only if no structurally
\* equal record is present, and otherwise leaves the list as it is; it returns
\* its input either way; save(r) right after save(r) leaves the list (and its
\* length) unchanged.
C1_SaveIdempotent ==
    [][last'.call = "save" =>
        LET r == last'.user[1]
        IN  /\ last'.ret_user = <<r>>
            /\ Present(users, r) => users' = users
            /\ ~Present(users, r) => users' = Append(users, r)
            /\ (last.call = "save" /\ SameFields(last.user[1], r))
                   => (users' = users /\ Len(users') = Len(users))]_vars

\* A save of a record right after a save of the same record, on a list that
\* holds other records too.
C1_Witness ==
    /\ last.call = "save"
    /\ prior.same
    /\ users = before
    /\ Len(users) >= 2
    /\ Present(users, last.user[1])

\* C2 (as stated): delete(id) of a present id removes exactly one record and
\* returns True, and delete(id) called again right away returns False and
\* leaves the list unchanged.
C2_DeleteTwice ==
    [][last'.call = "delete" =>
        /\ WithId(users, last'.id) # {}
               => (last'.ret_bool /\ Len(users') = Len(users) - 1)
        /\ (last.call = "delete" /\ last.ret_bool /\ last.id = last'.id)
               => (~last'.ret_bool /\ users' = users)]_vars

\* C2 (amended): delete(id) of a present id removes exactly one record and
\* returns True; delete(id) called again right away returns False and leaves
\* the list unchanged when no other record had that id, and otherwise removes
\* one more record and returns True.
C2_DeleteTwiceUniqueId ==
    [][last'.call = "delete" =>
        /\ WithId(users, last'.id) # {}
               => (last'.ret_bool /\ Len(users') = Len(users) - 1)
        /\ (last.call = "delete" /\ last.ret_bool /\ last.id = last'.id)
               => IF Cardinality(WithId(before, last.id)) = 1
                  THEN ~last'.ret_bool /\ users' = users
                  ELSE last'.ret_bool /\ Len(users') = Len(users) - 1]_vars

\* A second delete(id) right after a successful one, answered False on a list
\* that still holds records.
C2_Witness ==
    /\ last.call = "delete"
    /\ prior.same
    /\ prior.deleted
    /\ ~last.ret_bool
    /\ users = before
    /\ users # <<>>

\* C3: find_by_id / find_by_email return the record at the lowest position
\* whose id / email equals the key, return None exactly when no record
\* matches, and leave the list unchanged.
C3_FindFirstMatch ==
    /\ last.call = "find_by_id" =>
           /\ users = before
           /\ (last.ret_user = <<>>) <=> (WithId(users, last.id) = {})
           /\ WithId(users, last.id) # {}
                  => last.ret_user = <<users[Lowest(WithId(users, last.id))]>>
    /\ last.call = "find_by_email" =>
           /\ users = before
           /\ (last.ret_user = <<>>) <=> (WithEmail(users, last.email) = {})
           /\ WithEmail(users, last.email) # {}
                  => last.ret_user = <<users[Lowest(WithEmail(users, last.email))]>>

\* A find_by_email whose key two different records carry.
C3_Witness ==
    /\ last.call = "find_by_email"
    /\ Cardinality(WithEmail(users, last.email)) >= 2
    /\ last.ret_user # <<>>

\* C6: saving two different records, neither in the list yet, makes the list
\* two longer: the old list, in its order, followed by the two records in the
\* order they were saved.
C6_InsertionOrder ==
    [][(/\ last.call = "save"
        /\ last'.call = "save"
        /\ ~SameFields(last.user[1], last'.user[1])
        /\ ~Present(before, last.user[1])
        /\ ~Present(before, last'.user[1]))
       => /\ Len(users') = Len(before) + 2
          /\ users' = before \o <<last.user[1], last'.user[1]>>]_vars

\* Two saves in a row, each appending, onto a list that was not empty.
C6_Witness ==
    /\ last.call = "save"
    /\ prior.appended
    /\ ~prior.same
    /\ Len(users) = Len(before) + 1
    /\ Len(users) >= 3

\* C7: a record constructed without created_at carries the time of that
\* construction; two such records constructed at different times carry
\* different timestamps, and with the other four fields alike they are not
\* equal and save stores both.
C7_PerConstructionTimestamp ==
    [][(last'.call = "save" /\ last'.defaulted) =>
        LET b == last'.user[1]
        IN  /\ b.created_at = last'.at
            /\ (last.call = "save" /\ last.defaulted /\ last.at # last'.at) =>
                   LET a == last.user[1]
                   IN  /\ a.created_at # b.created_at
                       /\ (a.id = b.id /\ a.name = b.name /\ a.email = b.email
                              /\ a.age = b.age)
                              => (/\ ~SameFields(a, b)
                                  /\ Present(users', a)
                                  /\ Present(users', b)
                                  /\ Len(users') = Len(users) + 1)]_vars

\* C9: delete(id) with no record of that id returns False and leaves the list
\* as it was; otherwise it removes the lowest-position record with that id,
\* and the other records keep their order.
C9_DeleteFrame ==
    last.call = "delete" =>
        LET hits == WithId(before, last.id)
        IN  IF hits = {}
            THEN ~last.ret_bool /\ users = before
            ELSE /\ last.ret_bool
                 /\ Len(users) = Len(before) - 1
                 /\ users = Without(before, Lowest(hits))

\* A delete of an id two records carried, with a record of another id around.
C9_Witness ==
    /\ last.call = "delete"
    /\ last.ret_bool
    /\ Cardinality(WithId(before, last.id)) >= 2
    /\ \E i \in 1..Len(before) : before[i].id # last.id

\* C10: the list never holds two structurally equal records.
C10_NoEqualRecords ==
    \A i, j \in 1..Len(users) : i # j => ~SameFields(users[i], users[j])

\* A list with two records of one id and two records of one email.
C10_Witness ==
    /\ \E i, j \in 1..Len(users) : i # j /\ users[i].id = users[j].id
    /\ \E i, j \in 1..Len(users) : i # j /\ users[i].email = users[j].email

-----------------------------------------------------------------------------
(* The pure functions *)

BatchValues == {1, 2}

BatchItems == UNION {[1..n -> BatchValues] : n \in 0..MaxLen}

\* The pure functions, on inputs drawn from bounded sets; the repository is
\* the one the __main__ block builds.
InitPure ==
    /\ now = 0
    /\ default_created_at = now
    /\ users = <<Alice, Bob>>
    /\ before = <<Alice, Bob>>
    /\ last = NoCall
    /\ prior = NoPrior
    /\ items \in BatchItems
    /\ batch_size \in -MaxBatch..MaxBatch
    /\ outcome = NotCalled

NextPure == ProcessBatch \/ IsAdult

SpecPure == InitPure /\ [][NextPure]_vars

\* The batches laid end to end.
RECURSIVE Flatten(_)
Flatten(bs) == IF bs = <<>> THEN <<>> ELSE Head(bs) \o Flatten(Tail(bs))

\* C4: for batch_size s > 0 and L items, process_batch returns ceil(L / s)
\* chunks (none iff L = 0); every chunk but the last has s elements, the last
\* has 1..s, and the chunks laid end to end are items.
C4_BatchPartition ==
    (outcome.state # "idle" /\ batch_size > 0) =>
        LET bs == outcome.batches
            n == Len(bs)
        IN  /\ outcome.state = "returned"
            /\ n = (Len(items) + batch_size - 1) \div batch_size
            /\ (n = 0) <=> (Len(items) = 0)
            /\ \A k \in 1..(n - 1) : Len(bs[k]) = batch_size
            /\ n > 0 => Len(bs[n]) \in 1..batch_size
            /\ Flatten(bs) = items

\* A call that returned full chunks followed by a shorter last chunk.
C4_Witness ==
    /\ outcome.state = "returned"
    /\ batch_size >= 2
    /\ Len(outcome.batches) >= 2
    /\ Len(outcome.batches[Len(outcome.batches)]) < batch_size

\* C5: process_batch with batch_size <= 0 fails with an invalid-argument
\* error (ValueError), whatever items is, instead of returning.
C5_NonPositiveBatchSizeRejected ==
    (outcome.state # "idle" /\ batch_size <= 0) =>
        (outcome.state = "raised" /\ outcome.error = "ValueError")

\* C8: is_adult() is true exactly for age >= 18 (true at 18, false at 17) and
\* changes neither the record nor the repository.
C8_IsAdultThreshold ==
    last.call = "is_adult" =>
        LET u == last.user[1]
        IN  /\ last.ret_bool <=> (u.age >= 18)
            /\ u.age = 18 => last.ret_bool
            /\ u.age = 17 => ~last.ret_bool
            /\ u = [Alice EXCEPT !.age = u.age]
            /\ users = before
            /\ users = <<Alice, Bob>>

\* is_adult() called at the boundary age.
C8_Witness ==
    /\ last.call = "is_adult"
    /\ last.user[1].age = 18
    /\ last.ret_bool

====
